---- MODULE Spec2Model ----
(***************************************************************************)
(* flam-canvas: collaborative drawing canvas.                              *)
(*                                                                         *)
(* The module models                                                       *)
(*   - StateManager (server/state-manager.js): history, per-user undo      *)
(*     stacks, the redoStack field and the per-user stroke index;          *)
(*   - Room / RoomManager (server/rooms.js): roster and registry;          *)
(*   - the Socket.IO event handlers of server/server.js;                   *)
(*   - the client (client/main.js, client/websocket.js): allStrokes and    *)
(*     the callbacks that rebuild it from the server's broadcasts.         *)
(*                                                                         *)
(* Seven specifications are defined.  SpecSM drives one StateManager       *)
(* directly through its public methods and records the calls made.         *)
(* SpecSnapshot adds a caller that holds an array returned by getHistory,  *)
(* SpecRun a caller that makes runs of undos and redos.                    *)
(* Spec is the whole system: clients, the two message directions and the   *)
(* server.  SpecServer is the server alone, with any event arriving from   *)
(* any open socket, joined to the room it names or not.  SpecFault adds to *)
(* SpecServer the events that arrive without their payload.  SpecCursor is *)
(* the clients' cursor timer with a clock.                                 *)
(***************************************************************************)
EXTENDS Integers, Sequences, FiniteSets, TLC

\* ------------------------------------------------------------------------
\* Bounds
\* ------------------------------------------------------------------------
\* strokes ever handed to the StateManager driven by SpecSM
MaxSMStrokes == 3
\* calls of the StateManager remembered in `calls`
MaxCalls == 2
\* strokes handed to the StateManager driven by SpecSnapshot, and pushes a
\* caller makes onto an array getHistory() returned
MaxSnapStrokes == 2
\* strokes handed to the StateManager driven by SpecRun
MaxRunStrokes == 3
\* user inputs (join, stroke, undo, redo, clear) of all clients in Spec
MaxEvents == 4
\* events that reach the server in SpecServer
MaxArrivals == 4
\* SpecCursor: the time, in ms, up to which the clock is followed
MaxTime == 400
\* SpecCursor: the clock is looked at every TimeStep ms
TimeStep == 50

\* the delay of the cursor timer: setTimeout(..., 100)
CursorDelay == 100

\* socket ids (socket.id); they are also the StateManager's user ids
Conns == {"c1", "c2"}
\* room ids a user may type into the room input
RoomIds == {"r1", "r2"}
\* the clients whose pointer SpecCursor follows
Pointers == {"c1"}
\* cursor positions { x, y } a cursor_move event may carry
Points == {"p1", "p2"}

\* JavaScript's undefined, true and false as values a method may return
Undefined == "undefined"
JsTrue == "true"
JsFalse == "false"

\* JavaScript's null where a stroke is expected: no stroke has sid 0
Null == [sid |-> 0, userId |-> "null"]

\* ------------------------------------------------------------------------
\* JavaScript objects, Maps and arrays
\* ------------------------------------------------------------------------
\* {} and new Map(): no key at all.  An object is a function whose domain
\* is the set of its own keys.
EmptyObject == [k \in {} |-> << >>]

\* key in obj / map.has(key)
Has(obj, k) == k \in DOMAIN obj

\* obj[key] = v / map.set(key, v)
Put(obj, k, v) == [x \in (DOMAIN obj) \cup {k} |-> IF x = k THEN v ELSE obj[x]]

\* variant of Splice: splice(i) without a delete count, which removes the
\* i-th element and everything after it
SpliceToEnd(arr, i) == SubSeq(arr, 1, i - 1)

\* Array.prototype.splice(i, 1): the array without its i-th element (1-based)
Splice(arr, i) ==
  [k \in 1..(Len(arr) - 1) |-> IF k < i THEN arr[k] ELSE arr[k + 1]]

\* Array.prototype.pop() on a non-empty array: the array that remains
Pop(arr) == SubSeq(arr, 1, Len(arr) - 1)

\* ------------------------------------------------------------------------
\* StateManager (server/state-manager.js)
\* ------------------------------------------------------------------------
\* constructor(): history = [], undoStack = {}, redoStack = {},
\* userStrokes = new Map()
NewStateManager ==
  [history |-> << >>,
   undoStack |-> EmptyObject,
   redoStack |-> EmptyObject,
   userStrokes |-> EmptyObject]

\* a stroke: sid stands for the object's identity, userId is the field the
\* server stamps (Undefined as long as only the client has seen the stroke)
Stroke(sid, userId) == [sid |-> sid, userId |-> userId]

\* addStroke(stroke)
addStroke(sm, stroke) ==
  [sm EXCEPT
     !.redoStack = EmptyObject,
     !.history = Append(@, stroke),
     !.userStrokes =
        IF Has(@, stroke.userId)
        THEN Put(@, stroke.userId, Append(@[stroke.userId], stroke))
        ELSE Put(@, stroke.userId, <<stroke>>)]

\* getHistory(): [...this.history]
getHistory(sm) == sm.history

\* the backward scan of undoLastStrokeByUser: for (i = length-1; i >= 0; i--)
\* returns the 1-based index found, 0 for lastStrokeIndex === -1
RECURSIVE ScanBack(_, _, _)
ScanBack(history, userId, i) ==
  IF i = 0 THEN 0
  ELSE IF history[i].userId = userId THEN i
  ELSE ScanBack(history, userId, i - 1)

\* the scan run from the head: it stops at the user's first stroke
RECURSIVE ScanForward(_, _, _)
ScanForward(history, userId, i) ==
  IF i > Len(history) THEN 0
  ELSE IF history[i].userId = userId THEN i
  ELSE ScanForward(history, userId, i + 1)

\* variant of LastStrokeIndex: for (i = 0; i < length; i++)
LastStrokeIndexFromHead(history, userId) == ScanForward(history, userId, 1)

\* variant of LastStrokeIndex: the last stroke of history, whoever drew it
LastStrokeIndexAnyUser(history, userId) == Len(history)

LastStrokeIndex(history, userId) == ScanBack(history, userId, Len(history))

\* variant of undoLastStrokeByUser: the user's undo stack is created before
\* the scan, so also when there is nothing to undo
undoLastStrokeByUserEagerStack(sm, userId) ==
  LET lastStrokeIndex == LastStrokeIndex(sm.history, userId)
      stacks == IF Has(sm.undoStack, userId) THEN sm.undoStack
                ELSE Put(sm.undoStack, userId, << >>)
  IN
  IF lastStrokeIndex = 0
  THEN [sm |-> [sm EXCEPT !.undoStack = stacks], ret |-> Null]
  ELSE LET undoneStroke == sm.history[lastStrokeIndex] IN
       [sm |-> [sm EXCEPT
                  !.history = Splice(@, lastStrokeIndex),
                  !.undoStack =
                     Put(stacks, userId, Append(stacks[userId], undoneStroke)),
                  !.userStrokes =
                     IF Has(@, userId) /\ @[userId] # << >>
                     THEN Put(@, userId, Pop(@[userId]))
                     ELSE @],
        ret |-> undoneStroke]

\* variant of undoLastStrokeByUser: this.undoStack is replaced by an object
\* that holds the caller's stack only
undoLastStrokeByUserDropsOthers(sm, userId) ==
  LET lastStrokeIndex == LastStrokeIndex(sm.history, userId) IN
  IF lastStrokeIndex = 0
  THEN [sm |-> sm, ret |-> Null]
  ELSE LET undoneStroke == sm.history[lastStrokeIndex] IN
       [sm |-> [sm EXCEPT
                  !.history = Splice(@, lastStrokeIndex),
                  !.undoStack =
                     IF Has(@, userId)
                     THEN Put(EmptyObject, userId,
                              Append(@[userId], undoneStroke))
                     ELSE Put(EmptyObject, userId, <<undoneStroke>>),
                  !.userStrokes =
                     IF Has(@, userId) /\ @[userId] # << >>
                     THEN Put(@, userId, Pop(@[userId]))
                     ELSE @],
        ret |-> undoneStroke]

\* undoLastStrokeByUser(userId): the new state and the value returned
undoLastStrokeByUser(sm, userId) ==
  LET lastStrokeIndex == LastStrokeIndex(sm.history, userId) IN
  IF lastStrokeIndex = 0
  THEN [sm |-> sm, ret |-> Null]
  ELSE LET undoneStroke == sm.history[lastStrokeIndex] IN
       [sm |-> [sm EXCEPT
                  !.history = Splice(@, lastStrokeIndex),
                  !.undoStack =
                     IF Has(@, userId)
                     THEN Put(@, userId, Append(@[userId], undoneStroke))
                     ELSE Put(@, userId, <<undoneStroke>>),
                  !.userStrokes =
                     IF Has(@, userId) /\ @[userId] # << >>
                     THEN Put(@, userId, Pop(@[userId]))
                     ELSE @],
        ret |-> undoneStroke]

\* variant of redoStrokeByUser: the redone stroke is put back with unshift,
\* at the head of history
redoStrokeByUserAtHead(sm, userId) ==
  IF ~Has(sm.undoStack, userId) \/ Len(sm.undoStack[userId]) = 0
  THEN [sm |-> sm, ret |-> Null]
  ELSE LET redoStroke == sm.undoStack[userId][Len(sm.undoStack[userId])] IN
       [sm |-> [sm EXCEPT
                  !.undoStack = Put(@, userId, Pop(@[userId])),
                  !.history = <<redoStroke>> \o @,
                  !.userStrokes =
                     IF Has(@, userId)
                     THEN Put(@, userId, Append(@[userId], redoStroke))
                     ELSE Put(@, userId, <<redoStroke>>)],
        ret |-> redoStroke]

\* variant of redoStrokeByUser: a redo drops what the other users have undone
redoStrokeByUserDropsOthers(sm, userId) ==
  IF ~Has(sm.undoStack, userId) \/ Len(sm.undoStack[userId]) = 0
  THEN [sm |-> sm, ret |-> Null]
  ELSE LET redoStroke == sm.undoStack[userId][Len(sm.undoStack[userId])] IN
       [sm |-> [sm EXCEPT
                  !.undoStack = Put(EmptyObject, userId, Pop(@[userId])),
                  !.history = Append(@, redoStroke),
                  !.userStrokes =
                     IF Has(@, userId)
                     THEN Put(@, userId, Append(@[userId], redoStroke))
                     ELSE Put(@, userId, <<redoStroke>>)],
        ret |-> redoStroke]

\* variant of redoStrokeByUser: reads the top of undoStack[userId] without
\* popping it
redoStrokeByUserPeeks(sm, userId) ==
  IF ~Has(sm.undoStack, userId) \/ Len(sm.undoStack[userId]) = 0
  THEN [sm |-> sm, ret |-> Null]
  ELSE LET redoStroke == sm.undoStack[userId][Len(sm.undoStack[userId])] IN
       [sm |-> [sm EXCEPT !.history = Append(@, redoStroke)],
        ret |-> redoStroke]

\* variant of redoStrokeByUser: shift() instead of pop(), the stroke undone
\* first comes back first
redoStrokeByUserShifts(sm, userId) ==
  IF ~Has(sm.undoStack, userId) \/ Len(sm.undoStack[userId]) = 0
  THEN [sm |-> sm, ret |-> Null]
  ELSE LET redoStroke == Head(sm.undoStack[userId]) IN
       [sm |-> [sm EXCEPT
                  !.undoStack = Put(@, userId, Tail(@[userId])),
                  !.history = Append(@, redoStroke),
                  !.userStrokes =
                     IF Has(@, userId)
                     THEN Put(@, userId, Append(@[userId], redoStroke))
                     ELSE Put(@, userId, <<redoStroke>>)],
        ret |-> redoStroke]

\* redoStrokeByUser(userId): the new state and the value returned
redoStrokeByUser(sm, userId) ==
  IF ~Has(sm.undoStack, userId) \/ Len(sm.undoStack[userId]) = 0
  THEN [sm |-> sm, ret |-> Null]
  ELSE LET redoStroke == sm.undoStack[userId][Len(sm.undoStack[userId])] IN
       [sm |-> [sm EXCEPT
                  !.undoStack = Put(@, userId, Pop(@[userId])),
                  !.history = Append(@, redoStroke),
                  !.userStrokes =
                     IF Has(@, userId)
                     THEN Put(@, userId, Append(@[userId], redoStroke))
                     ELSE Put(@, userId, <<redoStroke>>)],
        ret |-> redoStroke]

\* variant of clearHistory: this.undoStack is not reset
clearHistoryKeepsUndoStack(sm) ==
  [sm EXCEPT !.history = << >>,
             !.redoStack = EmptyObject, !.userStrokes = EmptyObject]

\* clearHistory()
clearHistory(sm) ==
  [sm EXCEPT !.history = << >>, !.undoStack = EmptyObject,
             !.redoStack = EmptyObject, !.userStrokes = EmptyObject]

\* variant of canUndo: the scan does not compare the author
canUndoAnyStroke(sm, userId) ==
  IF Len(sm.history) > 0 THEN JsTrue ELSE JsFalse

\* canUndo(userId): true or false
canUndo(sm, userId) ==
  IF \E i \in 1..Len(sm.history) : sm.history[i].userId = userId
  THEN JsTrue ELSE JsFalse

\* canRedo(userId): this.undoStack[userId] && this.undoStack[userId].length > 0
\* JavaScript's && returns its left operand when that is falsy: undefined
\* for a user without an undoStack entry, otherwise the comparison's boolean
canRedo(sm, userId) ==
  IF ~Has(sm.undoStack, userId) THEN Undefined
  ELSE IF Len(sm.undoStack[userId]) > 0 THEN JsTrue ELSE JsFalse

\* JavaScript truthiness of the values canUndo and canRedo return
Truthy(v) == v = JsTrue

\* ------------------------------------------------------------------------
\* Room and RoomManager (server/rooms.js)
\* ------------------------------------------------------------------------
\* roomManager.rooms has no entry for the id: rooms.get(id) is undefined
NoRoom == [users |-> << >>, stateManager |-> NewStateManager, exists |-> FALSE]

\* new Room(roomId): users = [], stateManager = new StateManager()
NewRoom == [users |-> << >>, stateManager |-> NewStateManager, exists |-> TRUE]

\* the roster entry built by the join_room handler: { id: socket.id, ... }
\* (user.cursor is set later, by the cursor_move handler)
User(id) == [id |-> id, cursor |-> Undefined]

\* Room.addUser(user)
addUser(room, user) == [room EXCEPT !.users = Append(@, user)]

\* Array.prototype.filter(u => u.id !== userId)
RECURSIVE FilterOut(_, _)
FilterOut(users, userId) ==
  IF users = << >> THEN << >>
  ELSE IF Head(users).id # userId
       THEN <<Head(users)>> \o FilterOut(Tail(users), userId)
       ELSE FilterOut(Tail(users), userId)

\* variant of removeUser: this.users = [] instead of the filter
removeUserClearsRoster(room, userId) == [room EXCEPT !.users = << >>]

\* Room.removeUser(userId)
removeUser(room, userId) == [room EXCEPT !.users = FilterOut(@, userId)]

\* the index of the entry Room.getUserById(userId) returns
\* (users.find: the first entry with that id), 0 for undefined
getUserById(room, userId) ==
  IF \E i \in 1..Len(room.users) : room.users[i].id = userId
  THEN CHOOSE i \in 1..Len(room.users) :
         /\ room.users[i].id = userId
         /\ \A j \in 1..(i - 1) : room.users[j].id # userId
  ELSE 0

\* variant of getRoom: an unknown id yields a new Room instead of undefined
getRoomCreates(rms, roomId) ==
  IF rms[roomId].exists THEN rms[roomId] ELSE NewRoom

\* RoomManager.getRoom(roomId): the room, or NoRoom for undefined
getRoom(rms, roomId) == rms[roomId]

\* variant of createRoom: this.rooms.set(roomId, new Room(roomId)) without
\* the has(roomId) test
createRoomAlwaysNew(rms, roomId) == [rms EXCEPT ![roomId] = NewRoom]

\* RoomManager.createRoom(roomId): the registry afterwards
createRoom(rms, roomId) ==
  IF ~rms[roomId].exists THEN [rms EXCEPT ![roomId] = NewRoom] ELSE rms

\* variant of deleteRoom: this.rooms.clear() instead of delete(roomId)
deleteRoomClearsRegistry(rms, roomId) ==
  IF rms[roomId].exists THEN [r \in RoomIds |-> NoRoom] ELSE rms

\* RoomManager.deleteRoom(roomId): the registry afterwards
deleteRoom(rms, roomId) ==
  IF rms[roomId].exists THEN [rms EXCEPT ![roomId] = NoRoom] ELSE rms

\* ------------------------------------------------------------------------
\* Sockets, clients and events
\* ------------------------------------------------------------------------
\* a socket id before its 'connection' event: no userData, in no room
NewSocket == [state |-> "none", userData |-> Undefined, sioRooms |-> {}]

\* SocketManager.constructor and CollaborativeDrawingApp.constructor
NewClient ==
  [isConnected |-> FALSE,     \* SocketManager.isConnected
   currentRoom |-> Undefined, \* SocketManager.currentRoom (null)
   currentRoomId |-> Undefined, \* CollaborativeDrawingApp.currentRoomId (null)
   users |-> << >>,           \* SocketManager.users
   allStrokes |-> << >>,      \* CollaborativeDrawingApp.allStrokes
   reconnected |-> FALSE]     \* the Socket.IO client has reconnected

\* CollaborativeDrawingApp.constructor: cursorThrottleTimer = null.  The
\* timer is pending or not, is due at `due` and its callback holds
\* `position`.  The other fields follow the pointer: when it moved last,
\* when the movement it is in began (a movement lasts as long as successive
\* moves are less than CursorDelay apart) and the cursor_move events
\* emitted since.
NewPointer ==
  [pending |-> FALSE, due |-> 0, position |-> Undefined,
   moved |-> FALSE, lastMove |-> 0, moveStart |-> 0, emitted |-> 0]

\* an event on the wire: its name and the payload fields the handlers and
\* callbacks read; a field an event does not carry keeps the value below
Event(type) ==
  [type |-> type, roomId |-> Undefined, userId |-> Undefined,
   stroke |-> Null, history |-> << >>, users |-> << >>,
   action |-> Undefined, totalUsers |-> 0, cursor |-> Undefined]

\* ------------------------------------------------------------------------
\* Arrays as objects: what a caller holding an array sees of it later
\* ------------------------------------------------------------------------
\* no array has been handed out
NoSnapshot == [taken |-> FALSE, shared |-> FALSE, items |-> << >>]

\* variant of SpreadCopy: `return this.history`, the engine's own array
SameArray(arr) == [taken |-> TRUE, shared |-> TRUE, items |-> arr]

\* [...arr]: a new array with the elements of arr; `shared` says whether the
\* array handed out is the object this.history refers to
SpreadCopy(arr) == [taken |-> TRUE, shared |-> FALSE, items |-> arr]

\* this.history.push / splice change the array object in place: a holder of
\* that object sees the new elements, a holder of another array does not
InPlace(snapshot, arr) ==
  IF snapshot.shared THEN [snapshot EXCEPT !.items = arr] ELSE snapshot

\* this.history = []: the field refers to a new array, the old one is left
\* as it was
Reassigned(snapshot) == [snapshot EXCEPT !.shared = FALSE]

\* ------------------------------------------------------------------------
\* State
\* ------------------------------------------------------------------------
VARIABLES
  sm,        \* SpecSM: the StateManager under test
  smNext,    \* SpecSM: sid of the next stroke object handed to addStroke
  calls,     \* SpecSM: the last MaxCalls calls made, oldest first
  snap,      \* SpecSnapshot: the array a caller got from getHistory()
  rooms,     \* server: roomManager.rooms, room id -> Room (NoRoom: no entry)
  socket,    \* server: per socket id, connection state, socket.userData and
             \*         the Socket.IO rooms the socket has joined
  client,    \* client: SocketManager and CollaborativeDrawingApp fields
  toServer,  \* events emitted by a client, not yet handled by the server
  toClient,  \* events emitted by the server, not yet handled by the client
  nextSid,   \* sid of the next stroke object a client completes
  events,    \* Spec: user inputs so far; SpecServer: events arrived so far
  process,   \* server: the Node process, "running" or "exited"
  now,       \* SpecCursor: the time in ms
  pointer    \* client: cursorThrottleTimer and the pointer's movement

smVars == <<sm, smNext, calls, snap>>
cursorVars == <<now, pointer>>
sysVars ==
  <<rooms, socket, client, toServer, toClient, nextSid, events, process,
    now, pointer>>
vars == <<sm, smNext, calls, snap,
          rooms, socket, client, toServer, toClient, nextSid, events,
          process, now, pointer>>

\* ------------------------------------------------------------------------
\* SpecSM: one StateManager driven through its public methods
\* ------------------------------------------------------------------------
\* `calls` keeps the most recent MaxCalls calls
Record(log, call) ==
  IF Len(log) < MaxCalls THEN Append(log, call)
  ELSE Append(SubSeq(log, 2, Len(log)), call)

Call(op, userId, ret) == [op |-> op, userId |-> userId, ret |-> ret]

\* the fields of the whole system, as they are after construction
InitSys ==
  /\ rooms = [r \in RoomIds |-> NoRoom]
  /\ socket = [c \in Conns |-> NewSocket]
  /\ client = [c \in Conns |-> NewClient]
  /\ toServer = [c \in Conns |-> << >>]
  /\ toClient = [c \in Conns |-> << >>]
  /\ nextSid = 1
  /\ events = 0
  /\ process = "running"
  /\ now = 0
  /\ pointer = [c \in Conns |-> NewPointer]

InitSM ==
  /\ sm = NewStateManager
  /\ smNext = 1
  /\ calls = << >>
  /\ snap = NoSnapshot
  /\ InitSys

\* stateManager.addStroke(stroke) with stroke.userId = u
SMAddStroke(u) ==
  /\ smNext <= MaxSMStrokes
  /\ sm' = addStroke(sm, Stroke(smNext, u))
  /\ smNext' = smNext + 1
  /\ calls' = Record(calls, Call("addStroke", u, Null))
  /\ UNCHANGED <<snap, sysVars>>

\* stateManager.undoLastStrokeByUser(u)
SMUndo(u) ==
  LET r == undoLastStrokeByUser(sm, u) IN
  /\ sm' = r.sm
  /\ calls' = Record(calls, Call("undo", u, r.ret))
  /\ UNCHANGED <<smNext, snap, sysVars>>

\* stateManager.redoStrokeByUser(u)
SMRedo(u) ==
  LET r == redoStrokeByUser(sm, u) IN
  /\ sm' = r.sm
  /\ calls' = Record(calls, Call("redo", u, r.ret))
  /\ UNCHANGED <<smNext, snap, sysVars>>

\* stateManager.clearHistory()
SMClear ==
  /\ sm' = clearHistory(sm)
  /\ calls' = Record(calls, Call("clearHistory", Undefined, Null))
  /\ UNCHANGED <<smNext, snap, sysVars>>

NextSM ==
  \/ \E u \in Conns : SMAddStroke(u)
  \/ \E u \in Conns : SMUndo(u)
  \/ \E u \in Conns : SMRedo(u)
  \/ SMClear

SpecSM == InitSM /\ [][NextSM]_vars

\* ------------------------------------------------------------------------
\* SpecSnapshot: one StateManager and a caller that keeps what getHistory()
\* returned
\* ------------------------------------------------------------------------
\* const snapshot = stateManager.getHistory()
SnapGetHistory ==
  /\ snap' = SpreadCopy(sm.history)
  /\ UNCHANGED <<sm, smNext, calls, sysVars>>

\* stateManager.addStroke(stroke): this.history.push(stroke)
SnapAddStroke(u) ==
  /\ smNext <= MaxSnapStrokes
  /\ sm' = addStroke(sm, Stroke(smNext, u))
  /\ smNext' = smNext + 1
  /\ snap' = InPlace(snap, sm'.history)
  /\ UNCHANGED <<calls, sysVars>>

\* stateManager.undoLastStrokeByUser(u): this.history.splice(...)
SnapUndo(u) ==
  /\ sm' = undoLastStrokeByUser(sm, u).sm
  /\ snap' = InPlace(snap, sm'.history)
  /\ UNCHANGED <<smNext, calls, sysVars>>

\* stateManager.redoStrokeByUser(u): this.history.push(...)
SnapRedo(u) ==
  /\ sm' = redoStrokeByUser(sm, u).sm
  /\ snap' = InPlace(snap, sm'.history)
  /\ UNCHANGED <<smNext, calls, sysVars>>

\* stateManager.clearHistory(): this.history = []
SnapClear ==
  /\ sm' = clearHistory(sm)
  /\ snap' = Reassigned(snap)
  /\ UNCHANGED <<smNext, calls, sysVars>>

\* snapshot.push(x): the caller changes the array it was given
SnapCallerPush ==
  /\ snap.taken
  /\ Len(snap.items) <= MaxSnapStrokes
  /\ snap' = [snap EXCEPT !.items = Append(@, Null)]
  /\ sm' = IF snap.shared THEN [sm EXCEPT !.history = snap'.items] ELSE sm
  /\ UNCHANGED <<smNext, calls, sysVars>>

NextSnapshot ==
  \/ SnapGetHistory
  \/ \E u \in Conns : SnapAddStroke(u)
  \/ \E u \in Conns : SnapUndo(u)
  \/ \E u \in Conns : SnapRedo(u)
  \/ SnapClear
  \/ SnapCallerPush

SpecSnapshot == InitSM /\ [][NextSnapshot]_vars

\* ------------------------------------------------------------------------
\* SpecRun: one StateManager and a caller that takes getHistory() and then
\* makes one participant's undos followed by that participant's redos
\* ------------------------------------------------------------------------
\* Here `calls` holds the calls made since the caller took `snap`, as long
\* as they are successful undos of one participant followed by at most as
\* many successful redos of the same participant; any other call ends the
\* run: the caller drops the array and the record of calls.
Undos(log) == Cardinality({i \in DOMAIN log : log[i].op = "undo"})

Redos(log) == Cardinality({i \in DOMAIN log : log[i].op = "redo"})

Continues(log, call) ==
  /\ snap.taken
  /\ call.ret # Null
  /\ log = << >> => call.op = "undo"
  /\ log # << >> =>
       /\ call.userId = log[1].userId
       /\ call.op = "undo" => log[Len(log)].op = "undo"
       /\ call.op = "redo" => Redos(log) < Undos(log)

\* the run goes on with `call`, or it is over
Run(call) ==
  IF Continues(calls, call)
  THEN calls' = Append(calls, call) /\ snap' = snap
  ELSE calls' = << >> /\ snap' = NoSnapshot

\* const before = stateManager.getHistory()
RunGetHistory ==
  /\ snap' = SpreadCopy(getHistory(sm))
  /\ calls' = << >>
  /\ UNCHANGED <<sm, smNext, sysVars>>

\* stateManager.addStroke(stroke) with stroke.userId = u
RunAddStroke(u) ==
  /\ smNext <= MaxRunStrokes
  /\ sm' = addStroke(sm, Stroke(smNext, u))
  /\ smNext' = smNext + 1
  /\ Run(Call("addStroke", u, Null))
  /\ UNCHANGED sysVars

\* stateManager.undoLastStrokeByUser(u)
RunUndo(u) ==
  LET r == undoLastStrokeByUser(sm, u) IN
  /\ sm' = r.sm
  /\ Run(Call("undo", u, r.ret))
  /\ UNCHANGED <<smNext, sysVars>>

\* stateManager.redoStrokeByUser(u)
RunRedo(u) ==
  LET r == redoStrokeByUser(sm, u) IN
  /\ sm' = r.sm
  /\ Run(Call("redo", u, r.ret))
  /\ UNCHANGED <<smNext, sysVars>>

\* stateManager.clearHistory()
RunClear ==
  /\ sm' = clearHistory(sm)
  /\ Run(Call("clearHistory", Undefined, Null))
  /\ UNCHANGED <<smNext, sysVars>>

NextRun ==
  \/ RunGetHistory
  \/ \E u \in Conns : RunAddStroke(u)
  \/ \E u \in Conns : RunUndo(u)
  \/ \E u \in Conns : RunRedo(u)
  \/ RunClear

SpecRun == InitSM /\ [][NextRun]_vars

\* ------------------------------------------------------------------------
\* The server's Socket.IO handlers (server/server.js)
\* ------------------------------------------------------------------------
\* the connected sockets of `sockets` that have joined Socket.IO room roomId:
\* the recipients of io.to(roomId).emit(...)
InRoom(sockets, roomId) ==
  {c \in Conns : sockets[c].state = "open" /\ roomId \in sockets[c].sioRooms}

\* variant of Emit: the event overtakes what is already queued
EmitAtHead(queues, to, event) ==
  [c \in Conns |-> IF c \in to THEN <<event>> \o queues[c] ELSE queues[c]]

\* emit(event) to every socket of `to`: appended to their queues
Emit(queues, to, event) ==
  [c \in Conns |-> IF c \in to THEN Append(queues[c], event) ELSE queues[c]]

\* io.on('connection'): the transport connects; 'connect' on the client
\* (SocketManager.connect: isConnected = true)
Connect(c) ==
  /\ process = "running"
  /\ socket[c].state = "none"
  /\ socket' = [socket EXCEPT ![c].state = "open"]
  /\ client' = [client EXCEPT ![c].isConnected = TRUE]
  /\ UNCHANGED <<rooms, toServer, toClient, nextSid, events>>
  /\ UNCHANGED <<smVars, process, cursorVars>>

\* variant of join_room: load_history carries an empty history instead of
\* room.stateManager.getHistory()
join_roomEmptySnapshot(c, roomId) ==
  LET sockets == [socket EXCEPT ![c].sioRooms = @ \cup {roomId},
                                ![c].userData = roomId]
      registry == IF ~getRoom(rooms, roomId).exists
                  THEN createRoom(rooms, roomId) ELSE rooms
      room == addUser(registry[roomId], User(c))
      q1 == Emit(toClient, {c},
                 [Event("load_history") EXCEPT !.users = room.users])
      q2 == Emit(q1, InRoom(sockets, roomId),
                 [Event("users_updated") EXCEPT !.users = room.users])
      q3 == Emit(q2, InRoom(sockets, roomId) \ {c},
                 [Event("user_joined") EXCEPT
                    !.userId = c, !.totalUsers = Len(room.users)])
  IN /\ socket' = sockets
     /\ rooms' = [registry EXCEPT ![roomId] = room]
     /\ toClient' = q3

\* socket.on('join_room', ({ roomId, userId }) => ...)
join_room(c, roomId) ==
  LET \* socket.join(roomId); socket.userData = { roomId, userId }
      sockets == [socket EXCEPT ![c].sioRooms = @ \cup {roomId},
                                ![c].userData = roomId]
      \* getRoom, else createRoom
      registry == IF ~getRoom(rooms, roomId).exists
                  THEN createRoom(rooms, roomId) ELSE rooms
      room == addUser(registry[roomId], User(c))
      \* socket.emit('load_history'), io.to(roomId).emit('users_updated'),
      \* socket.broadcast.to(roomId).emit('user_joined')
      q1 == Emit(toClient, {c},
                 [Event("load_history") EXCEPT
                    !.history = getHistory(room.stateManager),
                    !.users = room.users])
      q2 == Emit(q1, InRoom(sockets, roomId),
                 [Event("users_updated") EXCEPT !.users = room.users])
      q3 == Emit(q2, InRoom(sockets, roomId) \ {c},
                 [Event("user_joined") EXCEPT
                    !.userId = c, !.totalUsers = Len(room.users)])
  IN /\ socket' = sockets
     /\ rooms' = [registry EXCEPT ![roomId] = room]
     /\ toClient' = q3

\* variant of drawing_step: socket.broadcast.to(roomId) instead of
\* io.to(roomId), which leaves the sender out
drawing_stepToOthers(c, roomId, stroke) ==
  LET room == getRoom(rooms, roomId)
      stamped == [stroke EXCEPT !.userId = c]
  IN /\ IF room.exists
        THEN /\ rooms' = [rooms EXCEPT ![roomId].stateManager =
                                          addStroke(@, stamped)]
             /\ toClient' = Emit(toClient, InRoom(socket, roomId) \ {c},
                                 [Event("draw_event") EXCEPT
                                    !.userId = c, !.stroke = stamped])
        ELSE UNCHANGED <<rooms, toClient>>
     /\ UNCHANGED socket

\* variant of drawing_step: stroke.userId = stroke.userId || socket.id, which
\* keeps an author the client supplied
drawing_stepKeepsSupplied(c, roomId, stroke) ==
  LET room == getRoom(rooms, roomId)
      stamped == IF stroke.userId = Undefined
                 THEN [stroke EXCEPT !.userId = c] ELSE stroke
  IN /\ IF room.exists
        THEN /\ rooms' = [rooms EXCEPT ![roomId].stateManager =
                                          addStroke(@, stamped)]
             /\ toClient' = Emit(toClient, InRoom(socket, roomId),
                                 [Event("draw_event") EXCEPT
                                    !.userId = c, !.stroke = stamped])
        ELSE UNCHANGED <<rooms, toClient>>
     /\ UNCHANGED socket

\* socket.on('drawing_step', ({ roomId, stroke }) => ...)
drawing_step(c, roomId, stroke) ==
  LET room == getRoom(rooms, roomId)
      \* stroke.userId = socket.id
      stamped == [stroke EXCEPT !.userId = c]
  IN /\ IF room.exists
        THEN /\ rooms' = [rooms EXCEPT ![roomId].stateManager =
                                          addStroke(@, stamped)]
             /\ toClient' = Emit(toClient, InRoom(socket, roomId),
                                 [Event("draw_event") EXCEPT
                                    !.userId = c, !.stroke = stamped])
        ELSE UNCHANGED <<rooms, toClient>>
     /\ UNCHANGED socket

\* variant of cursor_move: io.to(roomId) instead of
\* socket.broadcast.to(roomId), which includes the sender
cursor_moveToAll(c, roomId, point) ==
  LET room == getRoom(rooms, roomId)
      i == getUserById(room, c)
  IN /\ IF room.exists /\ i # 0
        THEN /\ rooms' = [rooms EXCEPT ![roomId].users[i].cursor = point]
             /\ toClient' = Emit(toClient, InRoom(socket, roomId),
                                 [Event("cursor_moved") EXCEPT
                                    !.userId = c, !.cursor = point])
        ELSE UNCHANGED <<rooms, toClient>>
     /\ UNCHANGED socket

\* socket.on('cursor_move', ({ roomId, x, y }) => ...)
cursor_move(c, roomId, point) ==
  LET room == getRoom(rooms, roomId)
      i == getUserById(room, c)
  IN /\ IF room.exists /\ i # 0
        THEN /\ rooms' = [rooms EXCEPT ![roomId].users[i].cursor = point]
             /\ toClient' = Emit(toClient, InRoom(socket, roomId) \ {c},
                                 [Event("cursor_moved") EXCEPT
                                    !.userId = c, !.cursor = point])
        ELSE UNCHANGED <<rooms, toClient>>
     /\ UNCHANGED socket

\* variant of undo: the broadcast is not guarded by `if (undoneStroke)`
undoAlwaysBroadcasts(c, roomId) ==
  LET room == getRoom(rooms, roomId)
      r == undoLastStrokeByUser(room.stateManager, c)
  IN /\ IF room.exists
        THEN /\ rooms' = [rooms EXCEPT ![roomId].stateManager = r.sm]
             /\ toClient' = Emit(toClient, InRoom(socket, roomId),
                                 [Event("history_updated") EXCEPT
                                    !.userId = c,
                                    !.history = getHistory(r.sm),
                                    !.action = "undo"])
        ELSE UNCHANGED <<rooms, toClient>>
     /\ UNCHANGED socket

\* socket.on('undo', ({ roomId }) => ...)
undo(c, roomId) ==
  LET room == getRoom(rooms, roomId)
      r == undoLastStrokeByUser(room.stateManager, c)
  IN /\ IF room.exists /\ r.ret # Null
        THEN /\ rooms' = [rooms EXCEPT ![roomId].stateManager = r.sm]
             /\ toClient' = Emit(toClient, InRoom(socket, roomId),
                                 [Event("history_updated") EXCEPT
                                    !.userId = c,
                                    !.history = getHistory(r.sm),
                                    !.action = "undo"])
        ELSE UNCHANGED <<rooms, toClient>>
     /\ UNCHANGED socket

\* socket.on('redo', ({ roomId }) => ...)
redo(c, roomId) ==
  LET room == getRoom(rooms, roomId)
      r == redoStrokeByUser(room.stateManager, c)
  IN /\ IF room.exists /\ r.ret # Null
        THEN /\ rooms' = [rooms EXCEPT ![roomId].stateManager = r.sm]
             /\ toClient' = Emit(toClient, InRoom(socket, roomId),
                                 [Event("history_updated") EXCEPT
                                    !.userId = c,
                                    !.history = getHistory(r.sm),
                                    !.action = "redo"])
        ELSE UNCHANGED <<rooms, toClient>>
     /\ UNCHANGED socket

\* socket.on('clear_canvas', ({ roomId }) => ...)
clear_canvas(c, roomId) ==
  LET room == getRoom(rooms, roomId)
  IN /\ IF room.exists
        THEN /\ rooms' = [rooms EXCEPT ![roomId].stateManager =
                                          clearHistory(@)]
             /\ toClient' = Emit(toClient, InRoom(socket, roomId),
                                 [Event("canvas_cleared") EXCEPT
                                    !.userId = c])
        ELSE UNCHANGED <<rooms, toClient>>
     /\ UNCHANGED socket

\* the Socket.IO client of a lost connection connects again by itself
\* (io(url), reconnection on by default): the server sees a new socket, with
\* a new id d, no userData and no rooms; the client is the same
\* SocketManager and app, whose 'connect' callback sets isConnected and
\* nothing else.  Slot c is left as a client that has no connection.
Reconnect(c, d) ==
  /\ process = "running"
  /\ socket[c].state = "closed"
  /\ socket[d].state = "none"
  /\ socket' = [socket EXCEPT ![d].state = "open"]
  /\ client' = [client EXCEPT
                  ![d] = [client[c] EXCEPT !.isConnected = TRUE,
                                           !.reconnected = TRUE],
                  ![c] = NewClient]
  /\ UNCHANGED <<rooms, toServer, toClient, nextSid, events>>
  /\ UNCHANGED <<smVars, process, cursorVars>>

\* the connection closes: the socket leaves its Socket.IO rooms, what was in
\* flight on it is lost, socket.on('disconnect') runs on the server and
\* 'disconnect' on the client (SocketManager: isConnected = false)
Disconnect(c) ==
  /\ socket[c].state = "open"
  /\ LET sockets == [socket EXCEPT ![c].state = "closed", ![c].sioRooms = {}]
         roomId == socket[c].userData
         dropped == [toClient EXCEPT ![c] = << >>]
     IN /\ socket' = sockets
        /\ IF roomId # Undefined /\ getRoom(rooms, roomId).exists
           THEN LET room == removeUser(getRoom(rooms, roomId), c)
                    q1 == Emit(dropped, InRoom(sockets, roomId),
                               [Event("users_updated") EXCEPT
                                  !.users = room.users])
                    q2 == Emit(q1, InRoom(sockets, roomId),
                               [Event("user_left") EXCEPT
                                  !.userId = c,
                                  !.totalUsers = Len(room.users)])
                IN IF Len(room.users) = 0
                   THEN /\ rooms' = deleteRoom(
                                      [rooms EXCEPT ![roomId] = room], roomId)
                        /\ toClient' = dropped
                   ELSE /\ rooms' = [rooms EXCEPT ![roomId] = room]
                        /\ toClient' = q2
           ELSE /\ rooms' = rooms
                /\ toClient' = dropped
  /\ toServer' = [toServer EXCEPT ![c] = << >>]
  /\ client' = [client EXCEPT ![c].isConnected = FALSE]
  /\ UNCHANGED <<nextSid, events>>
  /\ UNCHANGED <<smVars, process, cursorVars>>

\* ------------------------------------------------------------------------
\* The client's callbacks (client/websocket.js, client/main.js)
\* ------------------------------------------------------------------------
\* the client's socket.on(...) callbacks: what an event does to the client
Received(cl, event) ==
  CASE event.type = "draw_event" ->
         [cl EXCEPT !.allStrokes = Append(@, event.stroke)]
    [] event.type = "load_history" ->
         [cl EXCEPT !.allStrokes = event.history, !.users = event.users]
    [] event.type = "history_updated" ->
         [cl EXCEPT !.allStrokes = event.history]
    [] event.type = "canvas_cleared" ->
         [cl EXCEPT !.allStrokes = << >>]
    [] event.type = "users_updated" ->
         [cl EXCEPT !.users = event.users]
    [] OTHER -> cl

\* the client takes the next event the server sent it
Receive(c) ==
  /\ toClient[c] # << >>
  /\ client' = [client EXCEPT ![c] = Received(@, Head(toClient[c]))]
  /\ toClient' = [toClient EXCEPT ![c] = Tail(@)]
  /\ UNCHANGED <<rooms, socket, toServer, nextSid, events>>
  /\ UNCHANGED <<smVars, process, cursorVars>>

\* socket.emit(type, payload) in SocketManager: one more event for the server
Send(c, event) == toServer' = [toServer EXCEPT ![c] = Append(@, event)]

\* CollaborativeDrawingApp.joinRoom with SocketManager.joinRoom
AppJoinRoom(c, roomId) ==
  /\ events < MaxEvents
  /\ IF ~client[c].isConnected
     THEN /\ client' = [client EXCEPT ![c].currentRoomId = roomId]
          /\ UNCHANGED toServer
     ELSE /\ client' = [client EXCEPT ![c].currentRoomId = roomId,
                                      ![c].currentRoom = roomId]
          /\ Send(c, [Event("join_room") EXCEPT !.roomId = roomId])
  /\ events' = events + 1
  /\ UNCHANGED <<rooms, socket, toClient, nextSid>>
  /\ UNCHANGED <<smVars, process, cursorVars>>

\* drawingCanvas.onStrokeComplete(stroke) with SocketManager.emitDrawingStep
OnStrokeComplete(c) ==
  LET stroke == Stroke(nextSid, Undefined) IN
  /\ events < MaxEvents
  /\ client[c].currentRoomId # Undefined /\ client[c].isConnected
  /\ IF client[c].currentRoom # Undefined
     THEN Send(c, [Event("drawing_step") EXCEPT
                     !.roomId = client[c].currentRoom, !.stroke = stroke])
     ELSE UNCHANGED toServer
  /\ client' = [client EXCEPT ![c].allStrokes = Append(@, stroke)]
  /\ nextSid' = nextSid + 1
  /\ events' = events + 1
  /\ UNCHANGED <<rooms, socket, toClient>>
  /\ UNCHANGED <<smVars, process, cursorVars>>

\* the guards of the undo / redo / clear buttons and shortcuts
\* (currentRoomId) and of SocketManager.requestUndo / requestRedo /
\* requestClearCanvas (isConnected, currentRoom)
CanRequest(c) ==
  /\ events < MaxEvents
  /\ client[c].currentRoomId # Undefined
  /\ client[c].isConnected /\ client[c].currentRoom # Undefined

\* undoBtn click / Ctrl+Z with SocketManager.requestUndo
RequestUndo(c) ==
  /\ CanRequest(c)
  /\ Send(c, [Event("undo") EXCEPT !.roomId = client[c].currentRoom])
  /\ events' = events + 1
  /\ UNCHANGED <<rooms, socket, client, toClient, nextSid>>
  /\ UNCHANGED <<smVars, process, cursorVars>>

\* redoBtn click / Ctrl+Y with SocketManager.requestRedo
RequestRedo(c) ==
  /\ CanRequest(c)
  /\ Send(c, [Event("redo") EXCEPT !.roomId = client[c].currentRoom])
  /\ events' = events + 1
  /\ UNCHANGED <<rooms, socket, client, toClient, nextSid>>
  /\ UNCHANGED <<smVars, process, cursorVars>>

\* clearBtn click / Ctrl+L with SocketManager.requestClearCanvas
RequestClearCanvas(c) ==
  /\ CanRequest(c)
  /\ Send(c, [Event("clear_canvas") EXCEPT !.roomId = client[c].currentRoom])
  /\ events' = events + 1
  /\ UNCHANGED <<rooms, socket, client, toClient, nextSid>>
  /\ UNCHANGED <<smVars, process, cursorVars>>

\* ------------------------------------------------------------------------
\* Spec: clients, events in flight in both directions and the server
\* ------------------------------------------------------------------------
\* the oldest event socket c has sent and the server has not handled yet is
\* an event `type`
Incoming(c, type) ==
  /\ socket[c].state = "open"
  /\ toServer[c] # << >>
  /\ Head(toServer[c]).type = type

\* the event has been taken off the connection; the handlers touch nothing
\* of the clients
Handled(c) ==
  /\ toServer' = [toServer EXCEPT ![c] = Tail(@)]
  /\ UNCHANGED <<client, nextSid, events>>
  /\ UNCHANGED <<smVars, process, cursorVars>>

HandleJoinRoom(c) ==
  /\ Incoming(c, "join_room")
  /\ join_room(c, Head(toServer[c]).roomId)
  /\ Handled(c)

HandleDrawingStep(c) ==
  /\ Incoming(c, "drawing_step")
  /\ drawing_step(c, Head(toServer[c]).roomId, Head(toServer[c]).stroke)
  /\ Handled(c)

HandleUndo(c) ==
  /\ Incoming(c, "undo")
  /\ undo(c, Head(toServer[c]).roomId)
  /\ Handled(c)

HandleRedo(c) ==
  /\ Incoming(c, "redo")
  /\ redo(c, Head(toServer[c]).roomId)
  /\ Handled(c)

HandleClearCanvas(c) ==
  /\ Incoming(c, "clear_canvas")
  /\ clear_canvas(c, Head(toServer[c]).roomId)
  /\ Handled(c)

Init ==
  /\ sm = NewStateManager
  /\ smNext = 1
  /\ calls = << >>
  /\ snap = NoSnapshot
  /\ InitSys

Next ==
  \/ \E c \in Conns : Connect(c)
  \/ \E c \in Conns, roomId \in RoomIds : AppJoinRoom(c, roomId)
  \/ \E c \in Conns : OnStrokeComplete(c)
  \/ \E c \in Conns : RequestUndo(c)
  \/ \E c \in Conns : RequestRedo(c)
  \/ \E c \in Conns : RequestClearCanvas(c)
  \/ \E c \in Conns : HandleJoinRoom(c)
  \/ \E c \in Conns : HandleDrawingStep(c)
  \/ \E c \in Conns : HandleUndo(c)
  \/ \E c \in Conns : HandleRedo(c)
  \/ \E c \in Conns : HandleClearCanvas(c)
  \/ \E c \in Conns : Receive(c)
  \/ \E c \in Conns : Disconnect(c)
  \/ \E c \in Conns, d \in Conns : Reconnect(c, d)

Spec == Init /\ [][Next]_vars

\* ------------------------------------------------------------------------
\* SpecServer: the server with any event arriving from any open socket
\* ------------------------------------------------------------------------
\* The clients do not act here: what the server emits to a socket stays in
\* toClient, in the order emitted, until the socket disconnects.
\* an event of socket c can arrive
CanArrive(c) ==
  /\ socket[c].state = "open"
  /\ events < MaxArrivals

\* the event has arrived; the handlers touch nothing of the clients
Arrived ==
  /\ events' = events + 1
  /\ UNCHANGED <<client, toServer>>
  /\ UNCHANGED <<smVars, process, cursorVars>>

ArriveJoinRoom(c, roomId) ==
  /\ CanArrive(c)
  /\ join_room(c, roomId)
  /\ UNCHANGED nextSid
  /\ Arrived

\* each drawing_step event carries a stroke object of its own; its userId
\* is whatever the sender put there: nothing, or any id
ArriveDrawingStep(c, roomId) ==
  /\ CanArrive(c)
  /\ \E supplied \in Conns \cup {Undefined} :
       drawing_step(c, roomId, Stroke(nextSid, supplied))
  /\ nextSid' = nextSid + 1
  /\ Arrived

ArriveCursorMove(c, roomId, point) ==
  /\ CanArrive(c)
  /\ cursor_move(c, roomId, point)
  /\ UNCHANGED nextSid
  /\ Arrived

ArriveUndo(c, roomId) ==
  /\ CanArrive(c)
  /\ undo(c, roomId)
  /\ UNCHANGED nextSid
  /\ Arrived

ArriveRedo(c, roomId) ==
  /\ CanArrive(c)
  /\ redo(c, roomId)
  /\ UNCHANGED nextSid
  /\ Arrived

ArriveClearCanvas(c, roomId) ==
  /\ CanArrive(c)
  /\ clear_canvas(c, roomId)
  /\ UNCHANGED nextSid
  /\ Arrived

NextServer ==
  \/ \E c \in Conns : Connect(c)
  \/ \E c \in Conns, roomId \in RoomIds : ArriveJoinRoom(c, roomId)
  \/ \E c \in Conns, roomId \in RoomIds : ArriveDrawingStep(c, roomId)
  \/ \E c \in Conns, roomId \in RoomIds, point \in Points :
       ArriveCursorMove(c, roomId, point)
  \/ \E c \in Conns, roomId \in RoomIds : ArriveUndo(c, roomId)
  \/ \E c \in Conns, roomId \in RoomIds : ArriveRedo(c, roomId)
  \/ \E c \in Conns, roomId \in RoomIds : ArriveClearCanvas(c, roomId)
  \/ \E c \in Conns : Disconnect(c)

SpecServer == Init /\ [][NextServer]_vars

\* ------------------------------------------------------------------------
\* SpecFault: SpecServer, and events that arrive without their payload
\* ------------------------------------------------------------------------
\* A handler throws a TypeError.  server.js wraps no handler in try/catch
\* and installs no 'uncaughtException' listener, so the error ends the Node
\* process: roomManager is gone with its rooms, every connection closes and
\* no handler runs again.
UncaughtException ==
  /\ process' = "exited"
  /\ rooms' = [r \in RoomIds |-> NoRoom]
  /\ socket' = [d \in Conns |->
                  IF socket[d].state = "open"
                  THEN [socket[d] EXCEPT !.state = "closed", !.sioRooms = {}]
                  ELSE socket[d]]
  /\ client' = [d \in Conns |-> [client[d] EXCEPT !.isConnected = FALSE]]
  /\ toServer' = [d \in Conns |-> << >>]
  /\ toClient' = [d \in Conns |-> << >>]

\* socket.on('drawing_step', ({ roomId, stroke }) => ...) with a payload
\* { roomId } that has no stroke: for a room that exists the handler
\* evaluates stroke.userId = socket.id on undefined, which throws; for an
\* unknown room it does nothing
ArriveDrawingStepNoStroke(c, roomId) ==
  /\ CanArrive(c)
  /\ IF getRoom(rooms, roomId).exists
     THEN UncaughtException
     ELSE UNCHANGED <<rooms, socket, client, toServer, toClient, process>>
  /\ events' = events + 1
  /\ UNCHANGED <<nextSid, smVars, cursorVars>>

\* an event emitted with no payload at all: every handler destructures its
\* first argument, ({ roomId, ... }) => ..., which throws on undefined
ArriveNoPayload(c) ==
  /\ CanArrive(c)
  /\ UncaughtException
  /\ events' = events + 1
  /\ UNCHANGED <<nextSid, smVars, cursorVars>>

NextFault ==
  \/ \E c \in Conns : Connect(c)
  \/ \E c \in Conns, roomId \in RoomIds : ArriveJoinRoom(c, roomId)
  \/ \E c \in Conns, roomId \in RoomIds : ArriveDrawingStep(c, roomId)
  \/ \E c \in Conns, roomId \in RoomIds, point \in Points :
       ArriveCursorMove(c, roomId, point)
  \/ \E c \in Conns, roomId \in RoomIds : ArriveUndo(c, roomId)
  \/ \E c \in Conns, roomId \in RoomIds : ArriveRedo(c, roomId)
  \/ \E c \in Conns, roomId \in RoomIds : ArriveClearCanvas(c, roomId)
  \/ \E c \in Conns, roomId \in RoomIds : ArriveDrawingStepNoStroke(c, roomId)
  \/ \E c \in Conns : ArriveNoPayload(c)
  \/ \E c \in Conns : Disconnect(c)

SpecFault == Init /\ [][NextFault]_vars

\* ------------------------------------------------------------------------
\* SpecCursor: the clients' cursor timer as time passes
\* ------------------------------------------------------------------------
\* a mousemove or touchmove on the canvas: drawingCanvas.onCursorMove
\* (position) clears the timer and sets a new one, CursorDelay ms from now
OnCursorMove(c, position) ==
  /\ ~pointer[c].moved \/ pointer[c].lastMove < now
  /\ LET begins == ~pointer[c].moved
                     \/ now - pointer[c].lastMove >= CursorDelay
     IN pointer' = [pointer EXCEPT
          ![c].pending = TRUE,
          ![c].due = now + CursorDelay,
          ![c].position = position,
          ![c].moved = TRUE,
          ![c].lastMove = now,
          ![c].moveStart = IF begins THEN now ELSE @,
          ![c].emitted = IF begins THEN 0 ELSE @]
  /\ UNCHANGED <<rooms, socket, client, toServer, toClient, nextSid, events,
                 process, now, smVars>>

\* the timer's callback runs: if (currentRoomId && isConnected)
\* socketManager.emitCursorMove(x, y), which emits when isConnected and
\* currentRoom
CursorTimerFires(c) ==
  /\ pointer[c].pending
  /\ pointer[c].due <= now
  /\ IF /\ client[c].currentRoomId # Undefined /\ client[c].isConnected
        /\ client[c].currentRoom # Undefined
     THEN /\ Send(c, [Event("cursor_move") EXCEPT
                        !.roomId = client[c].currentRoom,
                        !.cursor = pointer[c].position])
          /\ pointer' = [pointer EXCEPT ![c].pending = FALSE,
                                        ![c].emitted = @ + 1]
     ELSE /\ pointer' = [pointer EXCEPT ![c].pending = FALSE]
          /\ UNCHANGED toServer
  /\ UNCHANGED <<rooms, socket, client, toClient, nextSid, events,
                 process, now, smVars>>

\* TimeStep ms pass; a timer that is due has run before
TimePasses ==
  /\ now + TimeStep <= MaxTime
  /\ \A c \in Conns : pointer[c].pending => pointer[c].due > now
  /\ now' = now + TimeStep
  /\ UNCHANGED <<rooms, socket, client, toServer, toClient, nextSid, events,
                 process, pointer, smVars>>

\* one client is followed: the clients' timers do not depend on each other
NextCursor ==
  \/ \E c \in Pointers : Connect(c)
  \/ \E c \in Pointers, roomId \in RoomIds : AppJoinRoom(c, roomId)
  \/ \E c \in Pointers, position \in Points : OnCursorMove(c, position)
  \/ \E c \in Pointers : CursorTimerFires(c)
  \/ TimePasses

SpecCursor == Init /\ [][NextCursor]_vars

\* ------------------------------------------------------------------------
\* Properties of the StateManager (checked under SpecSM)
\* ------------------------------------------------------------------------
\* the most recent call, when there is one
LastCall == calls[Len(calls)]

\* call k is a successful undo / redo by u
UndoneAt(k, u) ==
  calls[k].op = "undo" /\ calls[k].userId = u /\ calls[k].ret # Null
RedoneAt(k, u) ==
  calls[k].op = "redo" /\ calls[k].userId = u /\ calls[k].ret # Null

\* the greatest index of history whose author is u (0 when there is none),
\* stated without the scan
GreatestIndexOf(history, u) ==
  IF \E i \in 1..Len(history) : history[i].userId = u
  THEN CHOOSE i \in 1..Len(history) :
         /\ history[i].userId = u
         /\ \A j \in (i + 1)..Len(history) : history[j].userId # u
  ELSE 0

\* history without the element at index m
Without(history, m) ==
  SubSeq(history, 1, m - 1) \o SubSeq(history, m + 1, Len(history))

\* C2 (as claimed): after A has undone a stroke, if another participant B
\* then adds a stroke, a following redoStrokeByUser(A) (no further undo by A
\* in between) returns none and leaves history unchanged.
C2_RedoInvalidatedByFreshStroke ==
  [][\A a \in Conns : \A i, j \in DOMAIN calls :
       ( /\ i < j
         /\ UndoneAt(i, a)
         /\ calls[j].op = "addStroke" /\ calls[j].userId # a
         /\ \A m \in (j + 1)..Len(calls) : ~UndoneAt(m, a)
         /\ SMRedo(a) )
       => /\ redoStrokeByUser(sm, a).ret = Null
          /\ sm'.history = sm.history]_vars

\* C3 (as claimed): if B has undone a stroke and A then redoes successfully,
\* a following redoStrokeByUser(B) (no further undo by B in between) returns
\* none.
C3_RedoInvalidatedByRedo ==
  [][\A a, b \in Conns : \A i, j \in DOMAIN calls :
       ( /\ a # b /\ i < j
         /\ UndoneAt(i, b)
         /\ RedoneAt(j, a)
         /\ \A m \in (j + 1)..Len(calls) : ~UndoneAt(m, b)
         /\ SMRedo(b) )
       => redoStrokeByUser(sm, b).ret = Null]_vars

\* C3 (amended): a redo by A does not touch B's redo eligibility: if B has
\* undone a stroke and A then redoes successfully, a following
\* redoStrokeByUser(B), with no redo by B and no clearHistory since B's
\* undo, returns the stroke B undid most recently and appends it to history.
C3_RedoSurvivesOtherRedo ==
  [][\A a, b \in Conns : \A i, j \in DOMAIN calls :
       ( /\ a # b /\ i < j
         /\ UndoneAt(i, b)
         /\ \A m \in (i + 1)..Len(calls) : ~UndoneAt(m, b)
         /\ \A m \in i..Len(calls) :
               calls[m].op # "clearHistory" /\ ~RedoneAt(m, b)
         /\ RedoneAt(j, a)
         /\ SMRedo(b) )
       => /\ LastCall'.ret = calls[i].ret
          /\ sm'.history = Append(sm.history, calls[i].ret)]_vars

\* C3 witness: A redid successfully and B's redo, the very next call, still
\* returned a stroke (so B's undo came before A's redo)
C3_Witness ==
  /\ Len(calls) = 2
  /\ \E a, b \in Conns :
       /\ a # b
       /\ RedoneAt(1, a)
       /\ RedoneAt(2, b)

\* C4: when history holds a stroke of A, undoLastStrokeByUser(A) returns the
\* stroke at the greatest index whose author is A, removes exactly that entry
\* from history and pushes it on top of undoStack[A].
C4_UndoTargetsLatestOwnStroke ==
  [][\A a \in Conns :
       (SMUndo(a) /\ GreatestIndexOf(sm.history, a) # 0)
       => LET m == GreatestIndexOf(sm.history, a)
              target == sm.history[m]
              before == IF Has(sm.undoStack, a) THEN sm.undoStack[a]
                        ELSE << >>
          IN /\ LastCall'.ret = target
             /\ sm'.history = Without(sm.history, m)
             /\ Has(sm'.undoStack, a)
             /\ sm'.undoStack[a] = Append(before, target)]_vars

\* C4 witness: an undo by A has just removed a stroke of A that was followed
\* in history by the last stroke added, which is another participant's
C4_Witness ==
  /\ calls # << >>
  /\ LastCall.op = "undo"
  /\ LastCall.ret # Null
  /\ LastCall.ret.sid = smNext - 2
  /\ sm.history # << >>
  /\ sm.history[Len(sm.history)].sid = smNext - 1
  /\ sm.history[Len(sm.history)].userId # LastCall.userId

\* C7: when undoStack[A] is non-empty, redoStrokeByUser(A) pops the stroke A
\* undid most recently, appends it as the last element of history and returns
\* it; the strokes already in history keep their positions.
C7_RedoRelocatesToTail ==
  [][\A a \in Conns :
       (SMRedo(a) /\ Has(sm.undoStack, a) /\ sm.undoStack[a] # << >>)
       => LET stack == sm.undoStack[a]
              top == stack[Len(stack)]
          IN /\ LastCall'.ret = top
             /\ sm'.history = Append(sm.history, top)
             /\ sm'.undoStack[a] = SubSeq(stack, 1, Len(stack) - 1)
             /\ \A i \in 1..Len(sm.history) :
                   sm'.history[i] = sm.history[i]]_vars

\* C7 witness: a redo has put a stroke at the tail, behind a stroke that was
\* created after it, and another stroke of the same author is still undone
C7_Witness ==
  /\ calls # << >>
  /\ LastCall.op = "redo"
  /\ LastCall.ret # Null
  /\ sm.history[Len(sm.history)] = LastCall.ret
  /\ \E i \in 1..(Len(sm.history) - 1) : sm.history[i].sid > LastCall.ret.sid
  /\ sm.undoStack[LastCall.userId] # << >>

\* C8: undoLastStrokeByUser(A) when history holds no stroke of A, and
\* redoStrokeByUser(A) when A has nothing undone, return none and leave
\* history, the undo stacks, the redo stacks and the per-user stroke index
\* as they were.
C8_EmptyUndoRedoIsNoOp ==
  [][\A a \in Conns :
       /\ (SMUndo(a) /\ GreatestIndexOf(sm.history, a) = 0)
          => (LastCall'.ret = Null /\ sm' = sm)
       /\ (SMRedo(a) /\ (~Has(sm.undoStack, a) \/ sm.undoStack[a] = << >>))
          => (LastCall'.ret = Null /\ sm' = sm)]_vars

\* C8 witness: an empty undo and an empty redo have just been made on a
\* manager that holds strokes and undone strokes of the other participant
C8_Witness ==
  /\ Len(calls) >= 2
  /\ LastCall.op = "redo" /\ LastCall.ret = Null
  /\ calls[Len(calls) - 1].op = "undo"
  /\ calls[Len(calls) - 1].ret = Null
  /\ calls[Len(calls) - 1].userId = LastCall.userId
  /\ sm.history # << >>
  /\ \E b \in Conns : Has(sm.undoStack, b) /\ sm.undoStack[b] # << >>

\* C9 (as claimed): after clearHistory(), getHistory() is empty and
\* canUndo(u) and canRedo(u) are false for every author u.
C9_ClearIsTotal ==
  (calls # << >> /\ LastCall.op = "clearHistory")
  => /\ getHistory(sm) = << >>
     /\ \A u \in Conns : canUndo(sm, u) = JsFalse /\ canRedo(sm, u) = JsFalse

\* ------------------------------------------------------------------------
\* Properties of the system (checked under Spec and SpecServer)
\* ------------------------------------------------------------------------
\* the elements of a sequence
Range(seq) == {seq[i] : i \in 1..Len(seq)}

\* the identities of the strokes of a list, in order: equal for a stroke as
\* the client built it and the same stroke as the server stamped it
Sids(strokes) == [i \in 1..Len(strokes) |-> strokes[i].sid]

\* the history of room roomId
HistoryOf(roomId) == getHistory(rooms[roomId].stateManager)

\* every event emitted so far has been handled and every broadcast delivered
Quiescent ==
  \A c \in Conns : toServer[c] = << >> /\ toClient[c] = << >>

\* socket c is a connected participant of room roomId and of no other room
JoinedOnly(c, roomId) ==
  /\ socket[c].state = "open"
  /\ socket[c].sioRooms = {roomId}
  /\ rooms[roomId].exists
  /\ \E i \in 1..Len(rooms[roomId].users) : rooms[roomId].users[i].id = c
  /\ client[c].currentRoom = roomId

\* C1 (as claimed): once the broadcasts are delivered, the stroke list of
\* every joined participant (allStrokes) equals the server's getHistory()
\* for its session - for every participant, including the one who sent the
\* stroke.
C1_Convergence ==
  \A c \in Conns, roomId \in RoomIds :
    (Quiescent /\ JoinedOnly(c, roomId))
    => Sids(client[c].allStrokes) = Sids(HistoryOf(roomId))

CrossUserUndo(a, roomId) ==
  /\ ArriveUndo(a, roomId)
  /\ \E s \in Range(HistoryOf(roomId)) \ Range(HistoryOf(roomId)') :
       s.userId # a

\* C6 (as claimed): one user can undo another user's strokes: where a room
\* holds a stroke of B and A is another participant of that room, an undo
\* request by some participant can remove a stroke authored by someone else.
C6_CrossUserUndo ==
  (/\ events < MaxArrivals
   /\ \E a \in Conns, roomId \in RoomIds :
        /\ socket[a].state = "open"
        /\ rooms[roomId].exists
        /\ \E i \in 1..Len(rooms[roomId].users) : rooms[roomId].users[i].id = a
        /\ \E s \in Range(HistoryOf(roomId)) : s.userId # a)
  => \E a \in Conns, roomId \in RoomIds : ENABLED CrossUserUndo(a, roomId)

\* C10: an operation addressed to session r1 (join, stroke, cursor, undo,
\* redo, clear, or the roster removal of a disconnect) leaves the history, the
\* stacks and the roster of every other session unchanged.
C10_SessionIsolation ==
  [][\A c \in Conns :
       /\ \A r1 \in RoomIds :
            (\/ ArriveJoinRoom(c, r1) \/ ArriveDrawingStep(c, r1)
             \/ \E point \in Points : ArriveCursorMove(c, r1, point)
             \/ ArriveUndo(c, r1) \/ ArriveRedo(c, r1)
             \/ ArriveClearCanvas(c, r1))
            => \A r2 \in RoomIds \ {r1} : rooms'[r2] = rooms[r2]
       /\ Disconnect(c)
          => \A r2 \in RoomIds \ {socket[c].userData} :
               rooms'[r2] = rooms[r2]]_vars

\* C10 witness: two sessions are registered, each with a participant and a
\* stroke: the later of the strokes was added while the other session held
\* its own
C10_Witness ==
  \A roomId \in RoomIds :
    /\ rooms[roomId].exists
    /\ rooms[roomId].users # << >>
    /\ HistoryOf(roomId) # << >>

\* ------------------------------------------------------------------------
\* Connections, rosters and the registry (checked under Spec and SpecServer)
\* ------------------------------------------------------------------------
\* the socket ids in the roster of room roomId
RosterIds(roomId) == {u.id : u \in Range(rooms[roomId].users)}

\* the rooms that are registered and hold socket c in their roster
SessionsOf(c) ==
  {roomId \in RoomIds : rooms[roomId].exists /\ c \in RosterIds(roomId)}

\* the participants of room roomId: the connected sockets in its roster
Participants(roomId) ==
  {c \in RosterIds(roomId) : socket[c].state = "open"}

\* an event other than join_room of socket c, addressed to room roomId,
\* arrives and is handled
ArriveAction(c, roomId) ==
  \/ ArriveDrawingStep(c, roomId)
  \/ \E point \in Points : ArriveCursorMove(c, roomId, point)
  \/ ArriveUndo(c, roomId)
  \/ ArriveRedo(c, roomId)
  \/ ArriveClearCanvas(c, roomId)

\* C11 (as claimed): a stroke, undo, redo, clear or cursor event sent by a
\* connection that is not in the roster of the addressed session changes no
\* state of that session and emits nothing to its participants.
C11_ActsOnlyOnJoinedSession ==
  [][\A c \in Conns, roomId \in RoomIds :
       (c \notin RosterIds(roomId) /\ ArriveAction(c, roomId))
       => /\ rooms'[roomId] = rooms[roomId]
          /\ \A p \in RosterIds(roomId) : toClient'[p] = toClient[p]]_vars

\* C12 (as claimed): for every connection there is at most one registered
\* session whose roster contains it, and the connection is a recipient of
\* the broadcasts of at most one session.
C12_AtMostOneSession ==
  \A c \in Conns :
    /\ Cardinality(SessionsOf(c)) <= 1
    /\ Cardinality(socket[c].sioRooms) <= 1

\* C13 (as claimed): once the disconnect of a connection has been processed
\* the connection is in the roster of no registered session.
C13_NoParticipantAfterDisconnect ==
  \A c \in Conns : socket[c].state = "closed" => SessionsOf(c) = {}

\* C14 (as claimed): when the disconnect of the last participant of a
\* session is processed the session leaves the registry in that step, and a
\* join naming an unregistered session id gets a fresh session: empty
\* history, empty undo stacks and a roster holding the joiner only.
C14_RosterTeardown ==
  [][\A c \in Conns, roomId \in RoomIds :
       /\ (/\ Disconnect(c)
           /\ rooms[roomId].exists
           /\ Participants(roomId) = {c})
          => ~rooms'[roomId].exists
       /\ (ArriveJoinRoom(c, roomId) /\ ~rooms[roomId].exists)
          => /\ rooms'[roomId].exists
             /\ HistoryOf(roomId)' = << >>
             /\ rooms'[roomId].stateManager.undoStack = EmptyObject
             /\ rooms'[roomId].users = <<User(c)>>]_vars

\* C15: every registered session has a roster entry, and a session leaves
\* the registry only in the step that closes the one connection its roster
\* still holds.
C15_DestroyExactlyWhenEmpty ==
  [][\A roomId \in RoomIds :
       /\ rooms'[roomId].exists => rooms'[roomId].users # << >>
       /\ (rooms[roomId].exists /\ ~rooms'[roomId].exists)
          => \E c \in Conns :
               /\ socket[c].state = "open"
               /\ socket'[c].state = "closed"
               /\ RosterIds(roomId) = {c}]_vars

\* C15 witness: a connection has left and its session was destroyed, while
\* another session, which still has a participant, is registered
C15_Witness ==
  \E c \in Conns, r1 \in RoomIds, r2 \in RoomIds :
    /\ socket[c].state = "closed"
    /\ socket[c].userData = r1
    /\ ~rooms[r1].exists
    /\ rooms[r2].exists
    /\ Participants(r2) # {}

\* C16 (as claimed): once every connection that ever joined has disconnected
\* the registry holds no session.
C16_NoAbandonedSessions ==
  (\A c \in Conns :
     socket[c].userData # Undefined => socket[c].state = "closed")
  => \A roomId \in RoomIds : ~rooms[roomId].exists

\* ------------------------------------------------------------------------
\* Broadcasts (checked under SpecServer, where toClient[c] is everything
\* the server has emitted to socket c since it connected)
\* ------------------------------------------------------------------------
\* the last event emitted to socket c
LastEvent(c) == toClient[c][Len(toClient[c])]

HistoryUpdated(c, roomId, action) ==
  [Event("history_updated") EXCEPT
     !.userId = c, !.history = HistoryOf(roomId)', !.action = action]

C19_UnknownSessionIsNoOp ==
  [][\A c \in Conns, roomId \in RoomIds :
       (~rooms[roomId].exists /\ ArriveAction(c, roomId))
       => /\ rooms' = rooms
          /\ socket' = socket
          /\ toClient' = toClient]_vars

\* C19 witness: events have arrived although no socket has ever joined: each
\* of them named a session that was not registered
C19_Witness ==
  /\ events > 1
  /\ \A c \in Conns : socket[c].userData = Undefined
  /\ \A roomId \in RoomIds : ~rooms[roomId].exists

\* what the client's callbacks make of the events of log, taken in order
RECURSIVE Replay(_, _)
Replay(cl, log) ==
  IF log = << >> THEN cl ELSE Replay(Received(cl, Head(log)), Tail(log))

\* the socket ids in a roster
IdsOf(users) == {u.id : u \in Range(users)}

\* C20: a join adds the joiner to the roster and sends it load_history with
\* the session's history of that moment and a roster that includes it; every
\* other participant is sent the new roster and a user_joined notice; and
\* from then on the strokes the joiner has been sent (the snapshot and the
\* events after it, replayed by the client's callbacks) are the session's
\* history: none missing, none twice.
C20_JoinFanOut ==
  [][/\ \A c \in Conns, roomId \in RoomIds :
          ArriveJoinRoom(c, roomId)
          => LET roster == rooms'[roomId].users IN
               /\ c \in IdsOf(roster)
               /\ toClient'[c] =
                    toClient[c] \o
                    <<[Event("load_history") EXCEPT
                         !.history = HistoryOf(roomId), !.users = roster],
                      [Event("users_updated") EXCEPT !.users = roster]>>
               /\ \A p \in Participants(roomId) \ {c} :
                    toClient'[p] =
                      toClient[p] \o
                      <<[Event("users_updated") EXCEPT !.users = roster],
                        [Event("user_joined") EXCEPT
                           !.userId = c, !.totalUsers = Len(roster)]>>
     /\ \A c \in Conns, roomId \in RoomIds :
          (socket'[c].state = "open" /\ socket'[c].sioRooms = {roomId})
          => Replay(NewClient, toClient'[c]).allStrokes
               = HistoryOf(roomId)']_vars

\* C20 witness: a socket joined a session that already had strokes and was
\* sent a later stroke after its snapshot
C20_Witness ==
  \E c \in Conns, roomId \in RoomIds :
    /\ socket[c].state = "open"
    /\ socket[c].sioRooms = {roomId}
    /\ \E i \in 1..Len(toClient[c]), j \in 1..Len(toClient[c]) :
         /\ i < j
         /\ toClient[c][i].type = "load_history"
         /\ toClient[c][i].history # << >>
         /\ toClient[c][j].type = "draw_event"

\* C21: a clear request by a participant leaves the session with an empty
\* history and empty undo and redo stacks, and sends every participant one
\* canvas_cleared, also when the history was empty before.
C21_ClearFanOut ==
  [][\A c \in Conns, roomId \in RoomIds :
       (c \in Participants(roomId) /\ ArriveClearCanvas(c, roomId))
       => /\ HistoryOf(roomId)' = << >>
          /\ rooms'[roomId].stateManager.undoStack = EmptyObject
          /\ rooms'[roomId].stateManager.redoStack = EmptyObject
          /\ rooms'[roomId].users = rooms[roomId].users
          /\ \A p \in Participants(roomId) :
               toClient'[p] =
                 Append(toClient[p],
                        [Event("canvas_cleared") EXCEPT !.userId = c])]_vars

\* C21 witness: a participant was sent the notice of an undo that emptied
\* the history and then the notice of a clear, which found the history
\* empty and an undo stack filled, and left the stacks empty
C21_Witness ==
  \E c \in Conns, roomId \in RoomIds :
    /\ c \in Participants(roomId)
    /\ Len(toClient[c]) >= 2
    /\ LastEvent(c).type = "canvas_cleared"
    /\ toClient[c][Len(toClient[c]) - 1].type = "history_updated"
    /\ toClient[c][Len(toClient[c]) - 1].history = << >>
    /\ rooms[roomId].stateManager.undoStack = EmptyObject

\* C22: a cursor update from a participant changes nothing of the session
\* but the cursor field of the sender's own roster entry; every other
\* participant is sent one cursor_moved and the sender is sent nothing.
C22_CursorFanOut ==
  [][\A c \in Conns, roomId \in RoomIds, point \in Points :
       (c \in Participants(roomId) /\ ArriveCursorMove(c, roomId, point))
       => LET old == rooms[roomId].users
              new == rooms'[roomId].users
          IN /\ rooms'[roomId].stateManager = rooms[roomId].stateManager
             /\ Len(new) = Len(old)
             /\ \A i \in 1..Len(old) :
                  /\ new[i].id = old[i].id
                  /\ old[i].id # c => new[i] = old[i]
             /\ \E i \in 1..Len(old) :
                  old[i].id = c /\ new[i].cursor = point
             /\ toClient'[c] = toClient[c]
             /\ \A p \in Participants(roomId) \ {c} :
                  toClient'[p] =
                    Append(toClient[p],
                           [Event("cursor_moved") EXCEPT
                              !.userId = c, !.cursor = point])]_vars

\* C22 witness: the last event sent to a participant is the cursor_moved of
\* another participant, whose roster entry holds that position
C22_Witness ==
  \E c \in Conns, p \in Conns, roomId \in RoomIds :
    /\ c # p
    /\ {c, p} \subseteq Participants(roomId)
    /\ toClient[p] # << >>
    /\ LastEvent(p).type = "cursor_moved"
    /\ LastEvent(p).userId = c
    /\ \E u \in Range(rooms[roomId].users) :
         u.id = c /\ u.cursor = LastEvent(p).cursor

\* C23 (as claimed): when a participant of a session disconnects and the
\* roster keeps an entry, every remaining participant is sent the roster
\* without the departed connection and then a user_left notice; when the
\* roster becomes empty nothing is sent to anyone.
C23_DisconnectFanOut ==
  [][\A c \in Conns, roomId \in RoomIds :
       (Disconnect(c) /\ c \in RosterIds(roomId))
       => LET roster == rooms'[roomId].users IN
          IF RosterIds(roomId) # {c}
          THEN /\ c \notin IdsOf(roster)
               /\ \A p \in Participants(roomId) \ {c} :
                    \E k \in 1..Len(toClient'[p]) :
                      /\ k > Len(toClient[p])
                      /\ toClient'[p][k] =
                           [Event("users_updated") EXCEPT !.users = roster]
                      /\ k < Len(toClient'[p])
                      /\ toClient'[p][k + 1] =
                           [Event("user_left") EXCEPT
                              !.userId = c, !.totalUsers = Len(roster)]
          ELSE \A p \in Conns \ {c} : toClient'[p] = toClient[p]]_vars

\* ------------------------------------------------------------------------
\* Properties of getHistory's result (checked under SpecSnapshot)
\* ------------------------------------------------------------------------
\* C24: the array getHistory() returned keeps its elements, in order,
\* through every later addStroke, undo, redo and clearHistory, and a change
\* the caller makes to it leaves the engine's history as it was.
C24_DefensiveSnapshot ==
  [][/\ (/\ snap.taken
         /\ \/ \E u \in Conns : SnapAddStroke(u) \/ SnapUndo(u) \/ SnapRedo(u)
            \/ SnapClear)
        => snap'.items = snap.items
     /\ SnapCallerPush => sm' = sm]_vars

\* C24 witness: the caller holds an array it has changed, and the engine's
\* history, changed since by the engine, has none of the caller's change
C24_Witness ==
  /\ snap.taken
  /\ \E i \in 1..Len(snap.items) : snap.items[i] = Null
  /\ sm.history # << >>
  /\ \A i \in 1..Len(sm.history) : sm.history[i] # Null
  /\ Len(sm.history) # Len(snap.items) - 1

\* ------------------------------------------------------------------------
\* Further properties of the StateManager (checked under SpecSM)
\* ------------------------------------------------------------------------
\* C25: in every state and for every author u, canUndo(u) is true exactly
\* when an undo by u would return a stroke (and false otherwise), and
\* canRedo(u) is truthy exactly when a redo by u would return a stroke.
C25_QueriesMirrorOperations ==
  \A u \in Conns :
    /\ (canUndo(sm, u) = JsTrue) <=> (undoLastStrokeByUser(sm, u).ret # Null)
    /\ canUndo(sm, u) \in {JsTrue, JsFalse}
    /\ Truthy(canRedo(sm, u)) <=> (redoStrokeByUser(sm, u).ret # Null)

\* C25 witness: one author has taken back its only stroke (nothing to
\* undo, something to redo) while another author, who never took anything
\* back, has a stroke in the history
C25_Witness ==
  \E u \in Conns, v \in Conns :
    /\ canUndo(sm, u) = JsFalse /\ canRedo(sm, u) = JsTrue
    /\ canUndo(sm, v) = JsTrue /\ canRedo(sm, v) = Undefined

\* C26: no stroke object is at two positions of the history, whatever the
\* interleaving of addStroke, undo, redo and clearHistory by any authors.
C26_NoDuplicates ==
  \A i \in 1..Len(sm.history), j \in 1..Len(sm.history) :
    i # j => sm.history[i].sid # sm.history[j].sid

\* C26 witness: a stroke has been taken back and redone into a history that
\* holds other strokes
C26_Witness ==
  /\ calls # << >>
  /\ LastCall.op = "redo"
  /\ LastCall.ret # Null
  /\ Len(sm.history) >= 2
  /\ \E u \in Conns : Has(sm.undoStack, u) /\ sm.undoStack[u] # << >>

\* ------------------------------------------------------------------------
\* Authors (checked under SpecServer)
\* ------------------------------------------------------------------------
\* the strokes a StateManager holds: in its history or in an undo stack
StrokesOf(mgr) ==
  Range(mgr.history)
    \cup UNION {Range(mgr.undoStack[u]) : u \in DOMAIN mgr.undoStack}

\* the strokes held by the registered sessions
AllStrokes == UNION {StrokesOf(rooms[roomId].stateManager) : roomId \in RoomIds}

\* C27: a stroke submitted by a connection enters the history with that
\* connection's id as its author, whatever author the event carried; every
\* stroke in a history or an undo stack has a connection id as author; and
\* a stroke's author is the same in every later state.
C27_AuthorStamping ==
  [][/\ \A c \in Conns, roomId \in RoomIds :
          (ArriveDrawingStep(c, roomId) /\ rooms[roomId].exists)
          => /\ HistoryOf(roomId)' # << >>
             /\ HistoryOf(roomId)'[Len(HistoryOf(roomId)')]
                  = Stroke(nextSid, c)
     /\ \A s \in AllStrokes' : s.userId \in Conns
     /\ \A s \in AllStrokes, t \in AllStrokes' :
          s.sid = t.sid => s.userId = t.userId]_vars

\* C27 witness: a session holds a stroke of one connection in its history
\* and a stroke of another connection in an undo stack
C27_Witness ==
  \E roomId \in RoomIds, c \in Conns, d \in Conns :
    /\ c # d
    /\ \E s \in Range(HistoryOf(roomId)) : s.userId = c
    /\ Has(rooms[roomId].stateManager.undoStack, d)
    /\ \E s \in Range(rooms[roomId].stateManager.undoStack[d]) : s.userId = d

\* ------------------------------------------------------------------------
\* The registry (checked under SpecServer)
\* ------------------------------------------------------------------------
\* C28: createRoom with an id that is registered leaves the registry as it
\* is - the session, its history, stacks and roster, and every other entry -
\* and returns the registered session; getRoom returns the registered
\* session, and nothing for an id that is not registered.
C28_GetOrCreateIdempotent ==
  \A roomId \in RoomIds :
    /\ rooms[roomId].exists
       => /\ createRoom(rooms, roomId) = rooms
          /\ getRoom(createRoom(rooms, roomId), roomId) = rooms[roomId]
          /\ getRoom(rooms, roomId) = rooms[roomId]
    /\ ~rooms[roomId].exists
       => /\ getRoom(rooms, roomId) = NoRoom
          /\ createRoom(createRoom(rooms, roomId), roomId)
               = createRoom(rooms, roomId)

\* C28 witness: a registered session has a participant, a stroke in its
\* history and a stroke in an undo stack
C28_Witness ==
  \E roomId \in RoomIds :
    /\ rooms[roomId].exists
    /\ rooms[roomId].users # << >>
    /\ HistoryOf(roomId) # << >>
    /\ rooms[roomId].stateManager.undoStack # EmptyObject

\* ------------------------------------------------------------------------
\* Reconnection (checked under Spec)
\* ------------------------------------------------------------------------
\* C29 (as claimed): once a client that had joined a room (and had been sent
\* its roster) has reconnected and everything in flight has been handled, it
\* is in that room's roster, it is a recipient of the room's broadcasts, and
\* its stroke list equals the server's history of the room.
C29_ReconnectionWorks ==
  \A d \in Conns, roomId \in RoomIds :
    (/\ client[d].reconnected
     /\ socket[d].state = "open"
     /\ client[d].currentRoom = roomId
     /\ client[d].users # << >>
     /\ Quiescent)
    => /\ rooms[roomId].exists
       /\ d \in RosterIds(roomId)
       /\ roomId \in socket[d].sioRooms
       /\ Sids(client[d].allStrokes) = Sids(HistoryOf(roomId))

\* ------------------------------------------------------------------------
\* Order of effects (checked under SpecServer)
\* ------------------------------------------------------------------------
\* the events of a log that report a mutation of a history
IsMutationEvent(event) ==
  event.type \in {"draw_event", "history_updated", "canvas_cleared"}

MutationEvents(log) == SelectSeq(log, IsMutationEvent)

\* a is the end of b
IsSuffix(a, b) ==
  /\ Len(a) <= Len(b)
  /\ a = SubSeq(b, Len(b) - Len(a) + 1, Len(b))

\* a is the beginning of b
IsPrefix(a, b) ==
  /\ Len(a) <= Len(b)
  /\ a = SubSeq(b, 1, Len(a))

\* C30: the events one handler emits to a socket come after everything
\* emitted to it before; a stroke, undo, redo or clear that changes a
\* history sends the participants one and the same event; and so any two
\* connections of one session have been sent that session's draw_event,
\* history_updated and canvas_cleared events in the same order: what the
\* later joiner was sent is the end of what the earlier one was sent.
C30_EffectsFollowArrivalOrder ==
  [][/\ \A p \in Conns :
          socket'[p].state = "open" => IsPrefix(toClient[p], toClient'[p])
     /\ \A c \in Conns, roomId \in RoomIds :
          (/\ \/ ArriveDrawingStep(c, roomId) \/ ArriveUndo(c, roomId)
              \/ ArriveRedo(c, roomId) \/ ArriveClearCanvas(c, roomId)
           /\ rooms'[roomId] # rooms[roomId])
          => \A p \in Participants(roomId), q \in Participants(roomId) :
               /\ Len(toClient'[p]) = Len(toClient[p]) + 1
               /\ IsMutationEvent(toClient'[p][Len(toClient'[p])])
               /\ toClient'[q][Len(toClient'[q])]
                    = toClient'[p][Len(toClient'[p])]
     /\ \A p \in Conns, q \in Conns, roomId \in RoomIds :
          (/\ socket'[p].state = "open" /\ socket'[p].sioRooms = {roomId}
           /\ socket'[q].state = "open" /\ socket'[q].sioRooms = {roomId})
          => \/ IsSuffix(MutationEvents(toClient'[p]),
                         MutationEvents(toClient'[q]))
             \/ IsSuffix(MutationEvents(toClient'[q]),
                         MutationEvents(toClient'[p]))]_vars

\* C30 witness: two connections of one session, one of which joined after
\* the first mutation: it was sent the later mutations only
C30_Witness ==
  \E p \in Conns, q \in Conns, roomId \in RoomIds :
    /\ socket[p].state = "open" /\ socket[p].sioRooms = {roomId}
    /\ socket[q].state = "open" /\ socket[q].sioRooms = {roomId}
    /\ Len(MutationEvents(toClient[p])) >= 2
    /\ MutationEvents(toClient[q]) # << >>
    /\ Len(MutationEvents(toClient[q])) < Len(MutationEvents(toClient[p]))

\* ------------------------------------------------------------------------
\* Frame, conservation and order of undo and redo (checked under SpecSM)
\* ------------------------------------------------------------------------
\* the value of obj[k], with none standing for a missing key
Entry(obj, k) == IF Has(obj, k) THEN obj[k] ELSE Undefined

C32_MissingPayloadRejected ==
  [][\A c \in Conns :
       ( /\ \/ \E roomId \in RoomIds :
                 /\ ArriveDrawingStepNoStroke(c, roomId)
                 /\ getRoom(rooms, roomId).exists
            \/ ArriveNoPayload(c)
         /\ \E roomId \in RoomIds : getRoom(rooms, roomId).exists )
       => /\ rooms' = rooms
          /\ process' = "running"]_vars

\* the strokes a StateManager holds: those of history and of the undo stacks
Held(mgr) ==
  {mgr.history[i] : i \in 1..Len(mgr.history)}
    \cup UNION {{mgr.undoStack[u][i] : i \in 1..Len(mgr.undoStack[u])} :
                  u \in DOMAIN mgr.undoStack}

\* the number of places of history and of the undo stacks
RECURSIVE SumLen(_, _)
SumLen(stacks, keys) ==
  IF keys = {} THEN 0
  ELSE LET k == CHOOSE x \in keys : TRUE
       IN Len(stacks[k]) + SumLen(stacks, keys \ {k})

Places(mgr) == Len(mgr.history) + SumLen(mgr.undoStack, DOMAIN mgr.undoStack)

\* C33: addStroke adds its stroke to the strokes held in history and the
\* undo stacks, undo and redo leave them the same strokes, clearHistory
\* leaves none, the stroke added is not one already held and no stroke is
\* held in two places: so at any time the strokes added since the last
\* clearHistory are those of history and the undo stacks, each once.
C33_StrokeConservation ==
  [][/\ \A u \in Conns :
          SMAddStroke(u) => Held(sm') = Held(sm) \cup {Stroke(smNext, u)}
     /\ \A u \in Conns : (SMUndo(u) \/ SMRedo(u)) => Held(sm') = Held(sm)
     /\ SMClear => Held(sm') = {}
     /\ \A u \in Conns : Stroke(smNext, u) \notin Held(sm)
     /\ Places(sm') = Cardinality(Held(sm'))]_vars

\* C33 witness: after an undo and a redo, three strokes are held, one of
\* them in an undo stack and one moved to the tail of history by a redo
C33_Witness ==
  /\ Cardinality(Held(sm)) = 3
  /\ Len(sm.history) = 2
  /\ Len(calls) = 2
  /\ calls[1].op = "undo" /\ calls[1].ret # Null
  /\ calls[2].op = "redo" /\ calls[2].ret # Null
  /\ calls[2].ret # calls[1].ret

\* ------------------------------------------------------------------------
\* Runs of undos and redos (checked under SpecRun)
\* ------------------------------------------------------------------------
\* the elements of arr that are in `keep`, in the order they have in arr
RECURSIVE Filter(_, _)
Filter(arr, keep) ==
  IF arr = << >> THEN << >>
  ELSE IF Head(arr) \in keep THEN <<Head(arr)>> \o Filter(Tail(arr), keep)
  ELSE Filter(Tail(arr), keep)

\* C34: after k successful undos by A followed by k successful redos by A,
\* with no other call in between, the strokes come back in the reverse of
\* the order they were undone in, and history is: the strokes that stayed,
\* in their order, and then the k strokes in the order they had before the
\* undos.
C34_UndoRedoIsLIFO ==
  (snap.taken /\ calls # << >> /\ Redos(calls) = Undos(calls))
  => LET k == Undos(calls)
         undone == {calls[i].ret : i \in 1..k}
     IN /\ \A j \in 1..k : calls[k + j].ret = calls[k + 1 - j].ret
        /\ sm.history = Filter(snap.items, Range(snap.items) \ undone)
                          \o Filter(snap.items, undone)

\* C34 witness: two undos and two redos by A are done, and a stroke of
\* another participant that lay between A's two strokes is now before both
C34_Witness ==
  /\ snap.taken
  /\ Len(calls) = 4
  /\ Redos(calls) = 2
  /\ Len(snap.items) = 3
  /\ snap.items[2].userId # calls[1].userId
  /\ sm.history = <<snap.items[2], snap.items[1], snap.items[3]>>

\* ------------------------------------------------------------------------
\* Roster entries (checked under Spec)
\* ------------------------------------------------------------------------
\* C35 (as claimed): no roster holds two entries with the same connection
\* id, also when a connection joins the same session more than once.
C35_RosterEntriesUnique ==
  \A roomId \in RoomIds :
    \A i, j \in 1..Len(rooms[roomId].users) :
      i # j => rooms[roomId].users[i].id # rooms[roomId].users[j].id

\* ------------------------------------------------------------------------
\* The cursor timer (checked under SpecCursor)
\* ------------------------------------------------------------------------
\* C36 (as claimed): when the pointer of a joined, connected client has been
\* moving for longer than CursorDelay ms, the client has emitted at least
\* one cursor_move for every CursorDelay ms of that movement.
C36_CursorThrottled ==
  \A c \in Conns :
    ( /\ client[c].isConnected
      /\ client[c].currentRoom # Undefined
      /\ pointer[c].moved
      /\ pointer[c].lastMove - pointer[c].moveStart > CursorDelay )
    => pointer[c].emitted
         >= (pointer[c].lastMove - pointer[c].moveStart) \div CursorDelay

====
